---------------------------- MODULE Spec2Model ----------------------------
(***************************************************************************)
(* A model of the luv crate (src/src/lib.rs, src/src/approx_impl.rs):      *)
(* conversions between sRGB, L*u*v* and LCh(uv), the batch helpers,        *)
(* structural and approximate equality, and the squared distance.          *)
(*                                                                         *)
(* Numbers.  The crate computes in f32.  The model keeps the semantics of  *)
(* IEEE binary floating point (round to nearest, ties to even, after every *)
(* operation; infinities; NaN that compares unequal to everything) at a    *)
(* reduced width: a finite value is an integer number of units of          *)
(* 2^-FracBits whose significand has at most MantBits bits (f32 has 24).   *)
(* Values above MaxFinite overflow to an infinity, values below one unit   *)
(* round to zero.  There is no negative zero: -0.0 and 0.0 compare equal   *)
(* in every comparison the crate makes.                                    *)
(***************************************************************************)
EXTENDS Integers, Sequences, FiniteSets, TLC

\* ------------------------------------------------------------------ f32

MantBits == 9
FracBits == 14
Unit == 2^FracBits
Limit == 2^30
PInf == Limit
NInf == -Limit
NaN == Limit + 1
MaxFinite == (2^MantBits - 1) * 2^(30 - MantBits)

Abs(x) == IF x < 0 THEN -x ELSE x
Max(x, y) == IF x >= y THEN x ELSE y
Min(x, y) == IF x <= y THEN x ELSE y

IsNaN(x) == x = NaN
IsInf(x) == x = PInf \/ x = NInf
IsFinite(x) == ~IsNaN(x) /\ ~IsInf(x)

\* The number of bits of n, 0 <= n < 2^30.
BitLen(n) == CHOOSE k \in 0..30 : n < 2^k /\ (k = 0 \/ n >= 2^(k - 1))

\* The exponent of the last place of a magnitude n: n is representable iff
\* it is a multiple of 2^UlpExp(n).
UlpExp(n) == Max(0, BitLen(n) - MantBits)

\* the float after a finite x >= 0
NextUp(x) == x + 2^UlpExp(x)

IsRepresentable(x) ==
    \/ IsNaN(x) \/ IsInf(x)
    \/ Abs(x) <= MaxFinite /\ Abs(x) % (2^UlpExp(Abs(x))) = 0

\* n / d (n >= 0, d > 0) rounded to the nearest representable magnitude,
\* ties to even; PInf on overflow.
RoundQ(n, d) ==
    LET q == n \div d
        r == n % d
    IN  IF q >= Limit THEN PInf
        ELSE LET e == UlpExp(q)
                 u == 2^e
                 rem == q % u
                 lo == q - rem
                 up == IF e = 0 THEN r > d - r
                       ELSE rem > u \div 2 \/ (rem = u \div 2 /\ r > 0)
                 tie == IF e = 0 THEN r = d - r
                        ELSE rem = u \div 2 /\ r = 0
                 res == IF up \/ (tie /\ (lo \div u) % 2 = 1) THEN lo + u ELSE lo
             IN  IF res > MaxFinite THEN PInf ELSE res

\* (n / d) * 2^e rounded, for 0 <= n < 2^29 and d > 0, where either e < 0 or
\* n / d is exact in MantBits bits or at least 2^MantBits.
RoundScaled(n, d, e) ==
    IF n = 0 THEN 0
    ELSE IF e >= 0
    THEN LET t == RoundQ(n, d)
         IN  IF t = PInf \/ BitLen(t) + e > 30 THEN PInf
             ELSE IF t * 2^e > MaxFinite THEN PInf ELSE t * 2^e
    ELSE IF -e > 30 - BitLen(d) THEN 0
    ELSE RoundQ(n, d * 2^(-e))

\* A finite non-zero magnitude as m * 2^e with 2^(MantBits-1) <= m < 2^MantBits.
NormExp(n) == BitLen(n) - MantBits
NormMant(n) ==
    IF NormExp(n) >= 0 THEN n \div 2^NormExp(n) ELSE n * 2^(-NormExp(n))

Sign(x) == IF x < 0 THEN -1 ELSE IF x > 0 THEN 1 ELSE 0
WithSign(s, mag) ==
    IF s >= 0 THEN mag ELSE IF mag = PInf THEN NInf ELSE -mag

FNeg(a) == IF IsNaN(a) THEN NaN ELSE -a
FAbs(a) == IF IsNaN(a) THEN NaN ELSE Abs(a)

\* a + b
FAdd(a, b) ==
    IF IsNaN(a) \/ IsNaN(b) THEN NaN
    ELSE IF IsInf(a) THEN (IF IsInf(b) /\ a # b THEN NaN ELSE a)
    ELSE IF IsInf(b) THEN b
    ELSE WithSign(Sign(a + b), RoundQ(Abs(a + b), 1))

\* a - b
FSub(a, b) == FAdd(a, FNeg(b))

\* a * b
FMul(a, b) ==
    IF IsNaN(a) \/ IsNaN(b) THEN NaN
    ELSE IF IsInf(a) \/ IsInf(b)
    THEN (IF a = 0 \/ b = 0 THEN NaN ELSE WithSign(Sign(a) * Sign(b), PInf))
    ELSE IF a = 0 \/ b = 0 THEN 0
    ELSE WithSign(Sign(a) * Sign(b),
                  RoundScaled(NormMant(Abs(a)) * NormMant(Abs(b)), 1,
                              NormExp(Abs(a)) + NormExp(Abs(b)) - FracBits))

\* a / b
FDiv(a, b) ==
    IF IsNaN(a) \/ IsNaN(b) THEN NaN
    ELSE IF IsInf(a)
    THEN (IF IsInf(b) THEN NaN
          ELSE WithSign(Sign(a) * (IF b < 0 THEN -1 ELSE 1), PInf))
    ELSE IF IsInf(b) THEN 0
    ELSE IF b = 0 THEN (IF a = 0 THEN NaN ELSE WithSign(Sign(a), PInf))
    ELSE IF a = 0 THEN 0
    ELSE WithSign(Sign(a) * Sign(b),
                  RoundScaled(NormMant(Abs(a)) * 2^(29 - MantBits - 1),
                              NormMant(Abs(b)),
                              NormExp(Abs(a)) - NormExp(Abs(b)) + FracBits
                                  - (29 - MantBits - 1)))

\* The constant n / d of the source text, rounded once (n, d > 0).
Lit(n, d) == RoundQ(n * Unit, d)

\* a.mul_add(b, c): a * b + c with a single rounding
FMulAdd(a, b, c) ==
    IF IsNaN(a) \/ IsNaN(b) \/ IsNaN(c) THEN NaN
    ELSE IF IsInf(a) \/ IsInf(b) THEN FAdd(FMul(a, b), c)
    ELSE IF IsInf(c) THEN c
    ELSE IF a = 0 \/ b = 0 THEN c
    ELSE IF c = 0 THEN FMul(a, b)
    ELSE LET m1 == NormMant(Abs(a)) * NormMant(Abs(b))
             e1 == NormExp(Abs(a)) + NormExp(Abs(b)) - FracBits
             m2 == NormMant(Abs(c))
             e2 == NormExp(Abs(c))
             s1 == Sign(a) * Sign(b)
             s2 == Sign(c)
             base == Max(e1 + 2 * MantBits, e2 + MantBits) - 27
             Part(m, e) == IF e >= base THEN m * 2^(e - base)
                           ELSE IF base - e > 30 THEN 0
                           ELSE m \div 2^(base - e)
             Lost(m, e) == IF e >= base THEN FALSE
                           ELSE IF base - e > 30 THEN TRUE
                           ELSE m % 2^(base - e) # 0
             n == s1 * Part(m1, e1) + s2 * Part(m2, e2)
             sj == IF Lost(m1, e1) THEN s1 ELSE s2
             lower == IF sj > 0 THEN n ELSE n - 1
         IN  IF ~Lost(m1, e1) /\ ~Lost(m2, e2)
             THEN WithSign(Sign(n), RoundScaled(Abs(n), 1, base))
             ELSE IF lower >= 0
             THEN RoundScaled(2 * lower + 1, 2, base)
             ELSE WithSign(-1, RoundScaled(2 * (-lower - 1) + 1, 2, base))

\* a % b: the remainder of the truncated division, exact, with the sign of a
FRem(a, b) ==
    IF IsNaN(a) \/ IsNaN(b) \/ IsInf(a) \/ b = 0 THEN NaN
    ELSE IF IsInf(b) THEN a
    ELSE Sign(a) * (Abs(a) % Abs(b))

\* IEEE comparisons: every comparison with a NaN is false, != is true
FEq(a, b) == ~IsNaN(a) /\ ~IsNaN(b) /\ a = b
FNe(a, b) == ~FEq(a, b)
FLe(a, b) == ~IsNaN(a) /\ ~IsNaN(b) /\ a <= b
FLt(a, b) == ~IsNaN(a) /\ ~IsNaN(b) /\ a < b
FGt(a, b) == ~IsNaN(a) /\ ~IsNaN(b) /\ a > b

\* f32::rem_euclid (std): r = self % rhs; if r < 0.0 { r + rhs.abs() } else { r }
rem_euclid(a, rhs) ==
    LET r == FRem(a, rhs)
    IN  IF FLt(r, 0) THEN FAdd(r, FAbs(rhs)) ELSE r

\* x.powi(2), x.powi(3): repeated multiplication
powi2(x) == FMul(x, x)
powi3(x) == FMul(FMul(x, x), x)

\* y.powf(1.0 / 3.0): the cube root, correctly rounded.  A finite y > 0 is
\* m * 2^e units; its root is cbrt(m * 2^g) * 2^k units with g in 19..21
\* chosen to make k an integer, and cbrt(m * 2^g) has MantBits + 1 bits.
powf_third(y) ==
    IF IsNaN(y) \/ y < 0 THEN NaN
    ELSE IF y = 0 \/ y = PInf THEN y
    ELSE LET m == NormMant(y)
             e == NormExp(y) + 2 * FracBits
             g == CHOOSE j \in 19..21 : (e - j) % 3 = 0
             k == (e - g) \div 3
             x == m * 2^g
             c == CHOOSE r \in 2^MantBits..(2^(MantBits + 1) - 1) :
                      r * r * r <= x /\ (r = 2^(MantBits + 1) - 1 \/ x < (r + 1) * (r + 1) * (r + 1))
             lo == c - (c % 2)
             res == IF c % 2 = 0 THEN lo
                    ELSE IF c * c * c = x /\ (lo \div 2) % 2 = 0 THEN lo
                    ELSE lo + 2
         IN  res * 2^k

\* ------------------------------------------------------- the sRGB crate
\* srgb::xyz_from_u8 and srgb::u8_from_xyz belong to the srgb crate.  They
\* are modelled by the sRGB standard: the transfer function tabulated per
\* byte, and the D65 RGB <-> XYZ matrices.

\* gamma expansion of the byte b: GammaExpand[b + 1], in units
GammaExpand == <<
    0, 5, 10, 15, 20, 25, 30, 35, 40, 45, 50, 55,
    60, 66, 72, 78, 85, 92, 99, 107, 115, 123, 131, 140,
    150, 159, 169, 180, 190, 201, 213, 224, 237, 249, 262, 275,
    289, 303, 318, 332, 348, 363, 379, 396, 413, 430, 448, 466,
    484, 503, 522, 542, 562, 584, 604, 626, 648, 670, 694, 716,
    740, 764, 790, 814, 840, 866, 892, 920, 948, 976, 1004, 1032,
    1060, 1092, 1120, 1152, 1184, 1216, 1248, 1280, 1316, 1348, 1384, 1416,
    1452, 1488, 1524, 1560, 1600, 1636, 1676, 1716, 1752, 1792, 1832, 1876,
    1916, 1960, 2000, 2044, 2088, 2136, 2176, 2224, 2272, 2312, 2360, 2408,
    2456, 2504, 2552, 2608, 2656, 2704, 2760, 2808, 2864, 2912, 2968, 3024,
    3080, 3136, 3192, 3248, 3304, 3360, 3416, 3480, 3536, 3600, 3656, 3720,
    3784, 3840, 3904, 3968, 4032, 4096, 4160, 4224, 4304, 4368, 4432, 4496,
    4576, 4640, 4704, 4784, 4848, 4928, 4992, 5072, 5152, 5216, 5296, 5376,
    5440, 5520, 5600, 5680, 5760, 5840, 5920, 6000, 6080, 6160, 6240, 6336,
    6416, 6496, 6592, 6672, 6752, 6848, 6928, 7024, 7120, 7200, 7296, 7392,
    7472, 7568, 7664, 7760, 7856, 7952, 8048, 8144, 8224, 8352, 8448, 8544,
    8640, 8736, 8832, 8928, 9056, 9152, 9248, 9344, 9472, 9568, 9664, 9792,
    9888, 10016, 10112, 10208, 10336, 10432, 10560, 10688, 10784, 10912, 11008, 11136,
    11264, 11360, 11488, 11616, 11712, 11840, 11968, 12096, 12224, 12352, 12448, 12576,
    12704, 12832, 12960, 13088, 13216, 13344, 13472, 13600, 13728, 13888, 14016, 14144,
    14272, 14400, 14560, 14688, 14816, 14976, 15104, 15232, 15392, 15520, 15648, 15808,
    15936, 16096, 16224, 16384 >>

\* GammaThreshold[j]: the least linear value, in units, that compresses to
\* the byte j (1 <= j <= 255)
GammaThreshold == <<
    3, 8, 13, 18, 23, 28, 33, 38, 43, 48, 53, 58,
    64, 69, 76, 82, 89, 96, 103, 111, 119, 128, 136, 145,
    155, 165, 175, 185, 196, 207, 219, 231, 243, 256, 269, 283,
    297, 311, 325, 340, 356, 372, 388, 405, 422, 439, 457, 475,
    494, 513, 533, 553, 573, 594, 616, 637, 660, 682, 705, 729,
    753, 777, 802, 828, 853, 880, 907, 934, 961, 990, 1018, 1047,
    1077, 1107, 1138, 1169, 1200, 1233, 1265, 1298, 1332, 1366, 1400, 1435,
    1471, 1507, 1544, 1581, 1618, 1656, 1695, 1734, 1774, 1814, 1855, 1896,
    1938, 1980, 2023, 2067, 2110, 2155, 2200, 2246, 2292, 2338, 2386, 2433,
    2482, 2531, 2580, 2630, 2681, 2732, 2783, 2836, 2888, 2942, 2996, 3050,
    3105, 3161, 3217, 3274, 3332, 3390, 3448, 3507, 3567, 3627, 3688, 3750,
    3812, 3875, 3938, 4002, 4067, 4132, 4197, 4264, 4331, 4398, 4466, 4535,
    4605, 4675, 4745, 4817, 4888, 4961, 5034, 5108, 5182, 5257, 5333, 5409,
    5486, 5563, 5642, 5720, 5800, 5880, 5961, 6042, 6124, 6207, 6290, 6374,
    6458, 6544, 6630, 6716, 6803, 6891, 6980, 7069, 7159, 7249, 7340, 7432,
    7525, 7618, 7712, 7806, 7901, 7997, 8094, 8191, 8289, 8387, 8487, 8587,
    8687, 8788, 8890, 8993, 9096, 9200, 9305, 9411, 9517, 9624, 9731, 9839,
    9948, 10058, 10168, 10279, 10391, 10503, 10616, 10730, 10845, 10960, 11076, 11193,
    11310, 11428, 11547, 11666, 11787, 11908, 12029, 12152, 12275, 12399, 12523, 12649,
    12775, 12901, 13029, 13157, 13286, 13416, 13546, 13678, 13809, 13942, 14075, 14210,
    14345, 14480, 14617, 14754, 14891, 15030, 15169, 15310, 15450, 15592, 15734, 15878,
    16021, 16166, 16312 >>

expand_u8(b) == GammaExpand[b + 1]

\* rounds to the nearest byte; saturates, and NaN gives 0, as a cast does
compress_u8(v) ==
    IF IsNaN(v) THEN 0
    ELSE Cardinality({j \in 1..255 : v >= GammaThreshold[j]})

Dot3(m, a) ==
    FAdd(FAdd(FMul(m[1], a[1]), FMul(m[2], a[2])), FMul(m[3], a[3]))

XYZ_FROM_RGB == <<
    <<Lit(41241, 100000), Lit(35758, 100000), Lit(18045, 100000)>>,
    <<Lit(21265, 100000), Lit(71517, 100000), Lit(7218, 100000)>>,
    <<Lit(1933, 100000), Lit(11919, 100000), Lit(95039, 100000)>> >>

RGB_FROM_XYZ == <<
    <<Lit(32406, 10000), FNeg(Lit(15372, 10000)), FNeg(Lit(4986, 10000))>>,
    <<FNeg(Lit(9689, 10000)), Lit(18758, 10000), Lit(415, 10000)>>,
    <<Lit(557, 10000), FNeg(Lit(2040, 10000)), Lit(10570, 10000)>> >>

D65_XYZ == <<Lit(95045, 100000), Lit(1, 1), Lit(108892, 100000)>>

xyz_from_u8(rgb) ==
    LET lin == <<expand_u8(rgb[1]), expand_u8(rgb[2]), expand_u8(rgb[3])>>
    IN  <<Dot3(XYZ_FROM_RGB[1], lin), Dot3(XYZ_FROM_RGB[2], lin),
          Dot3(XYZ_FROM_RGB[3], lin)>>

u8_from_xyz(xyz) ==
    <<compress_u8(Dot3(RGB_FROM_XYZ[1], xyz)),
      compress_u8(Dot3(RGB_FROM_XYZ[2], xyz)),
      compress_u8(Dot3(RGB_FROM_XYZ[3], xyz))>>

\* ------------------------------------------------------------ lib.rs

MkLuv(l, u, v) == [l |-> l, u |-> u, v |-> v]
MkLCh(l, c, h) == [l |-> l, c |-> c, h |-> h]

\* #[derive(Default)]
LuvDefault == MkLuv(0, 0, 0)

KAPPA == Lit(24389, 27)
ONE_OVER_KAPPA == Lit(27, 24389)
EPSILON == Lit(216, 24389)
KAPPA_EPSILON == Lit(8, 1)

WHITE_DENOM ==
    FAdd(FAdd(D65_XYZ[1], FMul(Lit(15, 1), D65_XYZ[2])), FMul(Lit(3, 1), D65_XYZ[3]))
WHITE_U_PRIME == FDiv(FMul(Lit(4, 1), D65_XYZ[1]), WHITE_DENOM)
WHITE_V_PRIME == FDiv(FMul(Lit(9, 1), D65_XYZ[2]), WHITE_DENOM)

\* std::f32::consts::TAU
TAU == Lit(62832, 10000)

\* luv_from_xyz with the guard y < 0.0 in place of y <= 0.0
luv_from_xyz_run_lt(xyz) ==
    LET x == xyz[1]
        y == xyz[2]
        z == xyz[3]
    IN  IF FLt(y, 0) THEN [ret |-> LuvDefault, divisors |-> <<>>]
        ELSE LET l == IF FLe(y, EPSILON) THEN FMul(KAPPA, y)
                      ELSE FMulAdd(powf_third(y), Lit(116, 1), FNeg(Lit(16, 1)))
                 d == FMulAdd(y, Lit(15, 1), FMulAdd(z, Lit(3, 1), x))
                 ll == FMul(Lit(13, 1), l)
                 u == FMul(ll, FMulAdd(FDiv(x, d), Lit(4, 1), FNeg(WHITE_U_PRIME)))
                 v == FMul(ll, FMulAdd(FDiv(y, d), Lit(9, 1), FNeg(WHITE_V_PRIME)))
             IN  [ret |-> MkLuv(l, u, v), divisors |-> <<d, d>>]

\* luv_from_xyz, with the divisors of the divisions it evaluates, in order
luv_from_xyz_run(xyz) ==
    LET x == xyz[1]
        y == xyz[2]
        z == xyz[3]
    IN  IF FLe(y, 0) THEN [ret |-> LuvDefault, divisors |-> <<>>]
        ELSE LET l == IF FLe(y, EPSILON) THEN FMul(KAPPA, y)
                      ELSE FMulAdd(powf_third(y), Lit(116, 1), FNeg(Lit(16, 1)))
                 d == FMulAdd(y, Lit(15, 1), FMulAdd(z, Lit(3, 1), x))
                 ll == FMul(Lit(13, 1), l)
                 u == FMul(ll, FMulAdd(FDiv(x, d), Lit(4, 1), FNeg(WHITE_U_PRIME)))
                 v == FMul(ll, FMulAdd(FDiv(y, d), Lit(9, 1), FNeg(WHITE_V_PRIME)))
             IN  [ret |-> MkLuv(l, u, v), divisors |-> <<d, d>>]

luv_from_xyz(xyz) == luv_from_xyz_run(xyz).ret

\* xyz_from_luv with the guard luv.l < 0.0 in place of luv.l <= 0.0
xyz_from_luv_run_lt(luv) ==
    IF FLt(luv.l, 0) THEN [ret |-> <<0, 0, 0>>, divisors |-> <<>>]
    ELSE LET ll == FMul(Lit(13, 1), luv.l)
             u_prime == FAdd(FDiv(luv.u, ll), WHITE_U_PRIME)
             v_prime == FAdd(FDiv(luv.v, ll), WHITE_V_PRIME)
             y == IF FGt(luv.l, KAPPA_EPSILON)
                  THEN powi3(FDiv(FAdd(luv.l, Lit(16, 1)), Lit(116, 1)))
                  ELSE FMul(luv.l, ONE_OVER_KAPPA)
             a == FDiv(FMul(FMul(Lit(3, 4), y), u_prime), v_prime)
             x == FMul(Lit(3, 1), a)
             z == FSub(FDiv(FMul(y, FSub(Lit(3, 1), FMul(Lit(5, 1), v_prime))),
                            v_prime), a)
         IN  [ret |-> <<x, y, z>>,
              divisors |-> <<ll, ll>>
                           \o (IF FGt(luv.l, KAPPA_EPSILON) THEN <<Lit(116, 1)>>
                               ELSE <<>>)
                           \o <<v_prime, v_prime>>]

\* xyz_from_luv, with the divisors of the divisions it evaluates, in order
xyz_from_luv_run(luv) ==
    IF FLe(luv.l, 0) THEN [ret |-> <<0, 0, 0>>, divisors |-> <<>>]
    ELSE LET ll == FMul(Lit(13, 1), luv.l)
             u_prime == FAdd(FDiv(luv.u, ll), WHITE_U_PRIME)
             v_prime == FAdd(FDiv(luv.v, ll), WHITE_V_PRIME)
             y == IF FGt(luv.l, KAPPA_EPSILON)
                  THEN powi3(FDiv(FAdd(luv.l, Lit(16, 1)), Lit(116, 1)))
                  ELSE FMul(luv.l, ONE_OVER_KAPPA)
             a == FDiv(FMul(FMul(Lit(3, 4), y), u_prime), v_prime)
             x == FMul(Lit(3, 1), a)
             z == FSub(FDiv(FMul(y, FSub(Lit(3, 1), FMul(Lit(5, 1), v_prime))),
                            v_prime), a)
         IN  [ret |-> <<x, y, z>>,
              divisors |-> <<ll, ll>>
                           \o (IF FGt(luv.l, KAPPA_EPSILON) THEN <<Lit(116, 1)>>
                               ELSE <<>>)
                           \o <<v_prime, v_prime>>]

xyz_from_luv(luv) == xyz_from_luv_run(luv).ret

\* Luv::from_rgb, Luv::to_rgb
Luv_from_rgb(rgb) == luv_from_xyz(xyz_from_u8(rgb))
Luv_to_rgb(luv) == u8_from_xyz(xyz_from_luv(luv))

\* squared_distance with the u difference taken twice and v left out
squared_distance_uu(self, other) ==
    FAdd(FAdd(powi2(FSub(self.l, other.l)), powi2(FSub(self.u, other.u))),
         powi2(FSub(self.u, other.u)))

\* Luv::squared_distance
squared_distance(self, other) ==
    FAdd(FAdd(powi2(FSub(self.l, other.l)), powi2(FSub(self.u, other.u))),
         powi2(FSub(self.v, other.v)))

\* Luv_eq with the comparison of v left out
Luv_eq_without_v(self, other) ==
    IF FNe(self.l, other.l) THEN FALSE
    ELSE IF FEq(self.l, 0) THEN TRUE
    ELSE FEq(self.u, other.u)

\* Luv_eq as #[derive(PartialEq)] would give it: no special case for black
Luv_eq_derived(self, other) ==
    FEq(self.l, other.l) /\ FEq(self.u, other.u) /\ FEq(self.v, other.v)

\* impl PartialEq<Luv> for Luv
Luv_eq(self, other) ==
    IF FNe(self.l, other.l) THEN FALSE
    ELSE IF FEq(self.l, 0) THEN TRUE
    ELSE FEq(self.u, other.u) /\ FEq(self.v, other.v)

\* LCh_eq comparing the hues as they are, not reduced modulo TAU
LCh_eq_raw_hue(self, other) ==
    IF FNe(self.l, other.l) THEN FALSE
    ELSE IF FEq(self.l, 0) THEN TRUE
    ELSE IF FNe(self.c, other.c) THEN FALSE
    ELSE IF FEq(self.c, 0) THEN TRUE
    ELSE FEq(self.h, other.h)

\* impl PartialEq<LCh> for LCh
LCh_eq(self, other) ==
    IF FNe(self.l, other.l) THEN FALSE
    ELSE IF FEq(self.l, 0) THEN TRUE
    ELSE IF FNe(self.c, other.c) THEN FALSE
    ELSE IF FEq(self.c, 0) THEN TRUE
    ELSE FEq(rem_euclid(self.h, TAU), rem_euclid(other.h, TAU))

\* ------------------------------------------------------ batch helpers

\* rgbs.iter().map(Luv::from_rgb).collect()
rgbs_to_luvs_rev(rgbs) ==
    [i \in 1..Len(rgbs) |-> Luv_from_rgb(rgbs[Len(rgbs) + 1 - i])]

rgbs_to_luvs(rgbs) == [i \in 1..Len(rgbs) |-> Luv_from_rgb(rgbs[i])]

\* luvs.iter().map(Luv::to_rgb).collect()
luvs_to_rgbs(luvs) == [i \in 1..Len(luvs) |-> Luv_to_rgb(luvs[i])]

\* slice::windows(n) in place of chunks_exact(n): overlapping chunks
chunks_exact_windows(s, n) ==
    [i \in 1..(IF Len(s) >= n THEN Len(s) - n + 1 ELSE 0) |-> SubSeq(s, i, i + n - 1)]

\* slice::chunks_exact(n): the full chunks only; the remainder is left out
chunks_exact(s, n) ==
    [i \in 1..(Len(s) \div n) |-> SubSeq(s, n * (i - 1) + 1, n * i)]

\* <&[u8; 3]>::try_from(&[u8]): an error unless the slice has 3 elements
try_into3(chunk) ==
    IF Len(chunk) = 3 THEN [ok |-> TRUE, val |-> chunk]
    ELSE [ok |-> FALSE, val |-> <<>>]

\* rgb_bytes_to_luvs: unwrap() panics on an error of try_into
rgb_bytes_to_luvs_run(bytes) ==
    LET chunks == chunks_exact(bytes, 3)
        conv == [i \in 1..Len(chunks) |-> try_into3(chunks[i])]
    IN  IF \E i \in 1..Len(conv) : ~conv[i].ok
        THEN [panic |-> TRUE, ret |-> <<>>]
        ELSE [panic |-> FALSE,
              ret |-> [i \in 1..Len(conv) |-> Luv_from_rgb(conv[i].val)]]

\* the fold of luvs_to_rgb_bytes: acc.extend_from_slice(&rgb) per element
RECURSIVE extend_fold(_, _)
extend_fold(acc, rgbs) ==
    IF rgbs = <<>> THEN acc
    ELSE extend_fold(acc \o Head(rgbs), Tail(rgbs))

luvs_to_rgb_bytes(luvs) == extend_fold(<<>>, luvs_to_rgbs(luvs))

\* ------------------------------------------- lib.rs in exact arithmetic
\* The luminance laws of luv_from_xyz and xyz_from_luv computed without
\* rounding, on rationals <<n, d>> in lowest terms with d > 0.

RECURSIVE GCD(_, _)
GCD(a, b) == IF b = 0 THEN a ELSE GCD(b, a % b)

Q(n, d) == LET g == GCD(Abs(n), d) IN <<n \div g, d \div g>>
QAdd(a, b) == Q(a[1] * b[2] + b[1] * a[2], a[2] * b[2])
QMul(a, b) ==
    LET g1 == GCD(Abs(a[1]), b[2])
        g2 == GCD(Abs(b[1]), a[2])
    IN  Q((a[1] \div g1) * (b[1] \div g2), (a[2] \div g2) * (b[2] \div g1))
QDiv(a, b) == QMul(a, <<b[2], b[1]>>)
QLe(a, b) == a[1] * b[2] <= b[1] * a[2]
QGt(a, b) == ~QLe(a, b)

\* powi(3), and powf(1.0 / 3.0) of the cube of a rational
QCube(a) == QMul(a, QMul(a, a))
ICbrt(n) == CHOOSE k \in 0..n : k * k * k = n
QCbrt(y) == <<ICbrt(y[1]), ICbrt(y[2])>>

\* the constants as the rationals their expressions denote
KAPPA_exact == Q(24389, 27)
ONE_OVER_KAPPA_exact == Q(27, 24389)
EPSILON_exact == Q(216, 24389)
KAPPA_EPSILON_exact == Q(8, 1)

\* luv_from_xyz: the luminance l of y, and the branch taken
luv_from_xyz_l_exact(y) ==
    IF QLe(y, Q(0, 1)) THEN [l |-> Q(0, 1), branch |-> "black"]
    ELSE IF QLe(y, EPSILON_exact)
         THEN [l |-> QMul(KAPPA_exact, y), branch |-> "linear"]
    ELSE [l |-> QAdd(QMul(QCbrt(y), Q(116, 1)), Q(-16, 1)), branch |-> "cube"]

\* xyz_from_luv with l >= KAPPA_EPSILON in place of l > KAPPA_EPSILON
xyz_from_luv_y_exact_ge(l) ==
    IF QLe(l, Q(0, 1)) THEN [y |-> Q(0, 1), branch |-> "black"]
    ELSE IF QLe(KAPPA_EPSILON_exact, l)
         THEN [y |-> QCube(QDiv(QAdd(l, Q(16, 1)), Q(116, 1))), branch |-> "cube"]
    ELSE [y |-> QMul(l, ONE_OVER_KAPPA_exact), branch |-> "linear"]

\* xyz_from_luv: the y of the luminance l, and the branch taken
xyz_from_luv_y_exact(l) ==
    IF QLe(l, Q(0, 1)) THEN [y |-> Q(0, 1), branch |-> "black"]
    ELSE IF QGt(l, KAPPA_EPSILON_exact)
         THEN [y |-> QCube(QDiv(QAdd(l, Q(16, 1)), Q(116, 1))), branch |-> "cube"]
    ELSE [y |-> QMul(l, ONE_OVER_KAPPA_exact), branch |-> "linear"]

\* LCh::to_luv and the two PartialEq impls in exact arithmetic, on the
\* values that need no rounding: l and c whole numbers, the hue h a whole
\* number of quarter turns (h * TAU / 4 radians), so that TAU is 4, and the
\* cosine and the sine are 1, 0, -1, 0 and 0, 1, 0, -1.
TAU_exact == 4

\* f32 % f32: the remainder has the sign of the dividend
rem_exact(a, rhs) == IF a >= 0 THEN a % rhs ELSE -((-a) % rhs)

\* f32::rem_euclid
rem_euclid_exact(a, rhs) ==
    LET r == rem_exact(a, rhs)
    IN  IF r < 0 THEN r + Abs(rhs) ELSE r

cos_exact(h) == <<1, 0, -1, 0>>[(h % 4) + 1]
sin_exact(h) == <<0, 1, 0, -1>>[(h % 4) + 1]

\* LCh::to_luv
to_luv_exact(self) ==
    MkLuv(self.l, self.c * cos_exact(self.h), self.c * sin_exact(self.h))

\* impl PartialEq<Luv> for Luv
Luv_eq_exact(self, other) ==
    IF self.l # other.l THEN FALSE
    ELSE IF self.l = 0 THEN TRUE
    ELSE self.u = other.u /\ self.v = other.v

\* impl PartialEq<LCh> for LCh
LCh_eq_exact(self, other) ==
    IF self.l # other.l THEN FALSE
    ELSE IF self.l = 0 THEN TRUE
    ELSE IF self.c # other.c THEN FALSE
    ELSE IF self.c = 0 THEN TRUE
    ELSE rem_euclid_exact(self.h, TAU_exact) = rem_euclid_exact(other.h, TAU_exact)

\* ------------------------------------------------------ approx_impl.rs
\* The per-component tests are those of the approx crate for f32.

\* a.abs_diff_eq(&b, epsilon)
f32_abs_diff_eq(a, b, epsilon) == FLe(FAbs(FSub(a, b)), epsilon)

\* a.relative_eq(&b, epsilon, max_relative)
f32_relative_eq(a, b, epsilon, max_relative) ==
    IF FEq(a, b) THEN TRUE
    ELSE IF IsInf(a) \/ IsInf(b) THEN FALSE
    ELSE LET abs_diff == FAbs(FSub(a, b))
             largest == IF FGt(FAbs(b), FAbs(a)) THEN FAbs(b) ELSE FAbs(a)
         IN  FLe(abs_diff, epsilon) \/ FLe(abs_diff, FMul(largest, max_relative))

\* the position of a magnitude among the representable magnitudes: what
\* to_bits() gives for a non-negative value
to_bits(n) ==
    IF n = PInf THEN 2^MantBits + (30 - MantBits) * 2^(MantBits - 1)
    ELSE IF n < 2^MantBits THEN n
    ELSE 2^MantBits + (UlpExp(n) - 1) * 2^(MantBits - 1)
             + (n \div 2^UlpExp(n) - 2^(MantBits - 1))

signum(a) == IF IsNaN(a) THEN NaN ELSE IF a < 0 THEN -1 ELSE 1

\* a.ulps_eq(&b, epsilon, max_ulps)
f32_ulps_eq(a, b, epsilon, max_ulps) ==
    IF f32_abs_diff_eq(a, b, epsilon) THEN TRUE
    ELSE IF FNe(signum(a), signum(b)) THEN FALSE
    ELSE Abs(to_bits(Abs(a)) - to_bits(Abs(b))) <= max_ulps

\* f32::EPSILON: the difference between 1.0 and the next larger value
f32_EPSILON == NextUp(Lit(1, 1)) - Lit(1, 1)

\* f32::default_epsilon() and f32::default_max_relative() of the approx crate
f32_default_epsilon == f32_EPSILON
f32_default_max_relative == f32_EPSILON

\* default_epsilon with the tolerance of the tests written in
default_epsilon_1e4(t) == Lit(1, 10000)

\* approx_impl!($t, ..): fn default_epsilon(), for $t either Luv or LCh
default_epsilon(t) == f32_default_epsilon

\* approx_impl!($t, ..): fn default_max_relative()
default_max_relative(t) == f32_default_max_relative

\* The closure |a, b| a.<test>(&b, ...) that the macro hands to luv_eq and
\* lch_eq: the test it applies and the tolerances it captured.
closure(test, epsilon, max) == [test |-> test, epsilon |-> epsilon, max |-> max]

\* eq(a, b): the call of such a closure
call(eq, a, b) ==
    CASE eq.test = "abs_diff_eq" -> f32_abs_diff_eq(a, b, eq.epsilon)
      [] eq.test = "relative_eq" -> f32_relative_eq(a, b, eq.epsilon, eq.max)
      [] eq.test = "ulps_eq" -> f32_ulps_eq(a, b, eq.epsilon, eq.max)

\* fn luv_eq(lhs, rhs, eq)
luv_eq(lhs, rhs, eq) ==
    IF ~call(eq, lhs.l, rhs.l) THEN FALSE
    ELSE IF call(eq, lhs.l, 0) \/ call(eq, rhs.l, 0) THEN TRUE
    ELSE call(eq, lhs.u, rhs.u) /\ call(eq, lhs.v, rhs.v)

\* fn lch_eq(lhs, rhs, eq)
lch_eq(lhs, rhs, eq) ==
    IF ~call(eq, lhs.l, rhs.l) THEN FALSE
    ELSE IF call(eq, lhs.l, 0) \/ call(eq, rhs.l, 0) THEN TRUE
    ELSE IF ~call(eq, lhs.c, rhs.c) THEN FALSE
    ELSE IF call(eq, rhs.c, 0) \/ call(eq, rhs.c, 0) THEN TRUE
    ELSE call(eq, rem_euclid(lhs.h, TAU), rem_euclid(rhs.h, TAU))

\* approx_impl!(crate::Luv, luv_eq)
Luv_abs_diff_eq(self, other, epsilon) ==
    luv_eq(self, other, closure("abs_diff_eq", epsilon, 0))
Luv_relative_eq(self, other, epsilon, max_relative) ==
    luv_eq(self, other, closure("relative_eq", epsilon, max_relative))
Luv_ulps_eq(self, other, epsilon, max_ulps) ==
    luv_eq(self, other, closure("ulps_eq", epsilon, max_ulps))

\* approx_impl!(crate::LCh, lch_eq)
LCh_abs_diff_eq(self, other, epsilon) ==
    lch_eq(self, other, closure("abs_diff_eq", epsilon, 0))
LCh_relative_eq(self, other, epsilon, max_relative) ==
    lch_eq(self, other, closure("relative_eq", epsilon, max_relative))
LCh_ulps_eq(self, other, epsilon, max_ulps) ==
    lch_eq(self, other, closure("ulps_eq", epsilon, max_ulps))

\* ------------------------------------------------------ the state machine
\* Every operation of the crate is a pure function of its arguments.  A
\* behaviour is one call: op names the operation called (idle before the
\* call), arg holds its arguments, ret its result, and fx what the call did
\* besides returning: whether it panicked, and the divisors of the divisions
\* it evaluated.  An action takes the arguments of the call and what running
\* the operation on them gives.

VARIABLES op, arg, ret, fx

vars == <<op, arg, ret, fx>>

NoFx == [panic |-> FALSE, divisors |-> <<>>]

Init == op = "idle" /\ arg = <<>> /\ ret = <<>> /\ fx = NoFx

\* bounds of the inputs
MaxLen == 2
MaxBytes == 6
MaxTurns == 2

SeqsUpTo(S, n) == UNION {[1..k -> S] : k \in 0..n}

\* ---- structural equality

EqL == {0, Lit(50, 1), NaN}
EqUV == {0, Lit(75, 1), Lit(100, 1), NaN}
EqLuvs == {MkLuv(l, u, v) : l \in EqL, u \in EqUV, v \in EqUV}
EqC == {0, Lit(50, 1), NaN}
EqH == {0, Lit(1, 1), NextUp(Lit(1, 1)), FAdd(Lit(1, 1), TAU),
        FSub(Lit(1, 1), TAU), -1, NaN, PInf}
EqLChs == {MkLCh(l, c, h) : l \in EqL, c \in EqC, h \in EqH}

TurnL == {0, Lit(75, 1)}
TurnC == {0, Lit(50, 1)}
TurnH == {0, Lit(1, 2), Lit(1, 1), NextUp(Lit(1, 1)), Lit(2, 1), FNeg(Lit(1, 1))}
TurnLChs == {MkLCh(l, c, h) : l \in TurnL, c \in TurnC, h \in TurnH}

\* a == b on Luv
Luv_eq_call(a, b, res) ==
    /\ op = "idle"
    /\ op' = "Luv_eq"
    /\ arg' = <<a, b>>
    /\ ret' = res
    /\ fx' = NoFx

\* a == b on LCh
LCh_eq_call(a, b, res) ==
    /\ op = "idle"
    /\ op' = "LCh_eq"
    /\ arg' = <<a, b>>
    /\ ret' = res
    /\ fx' = NoFx

\* the hue x.h + k * TAU, as test_partial_eq writes it (1.0 + 2.0 * TAU)
turn_hue(x, k) ==
    MkLCh(x.l, x.c, FAdd(x.h, FMul(WithSign(k, Lit(Abs(k), 1)), TAU)))

\* x == LCh { h: x.h + k * TAU, ..x }, as test_partial_eq compares hues
hue_turns_call(x, k, res) ==
    /\ op = "idle"
    /\ op' = "hue_turns"
    /\ arg' = <<x, k, turn_hue(x, k)>>
    /\ ret' = res
    /\ fx' = NoFx

NextEq ==
    \/ \E a \in EqLuvs, b \in EqLuvs : Luv_eq_call(a, b, Luv_eq(a, b))
    \/ \E a \in EqLChs, b \in EqLChs : LCh_eq_call(a, b, LCh_eq(a, b))
    \/ \E x \in TurnLChs, k \in (-MaxTurns)..MaxTurns :
           hue_turns_call(x, k, LCh_eq(x, turn_hue(x, k)))
SpecEq == Init /\ [][NextEq]_vars

\* ---- XYZ <-> Luv

XyzVals == {NInf, FNeg(Lit(1, 1)), 0, 1, EPSILON, NextUp(EPSILON), Lit(1, 2),
            Lit(1, 1), NaN, PInf}
XyzLuvL == {NInf, FNeg(Lit(1, 1)), 0, 1, KAPPA_EPSILON, NextUp(KAPPA_EPSILON),
            Lit(50, 1), Lit(100, 1), NaN, PInf}
XyzLuvUV == {FNeg(Lit(100, 1)), 0, Lit(50, 1), NaN}

luv_from_xyz_call(xyz, run) ==
    /\ op = "idle"
    /\ op' = "luv_from_xyz"
    /\ arg' = xyz
    /\ ret' = run.ret
    /\ fx' = [panic |-> FALSE, divisors |-> run.divisors]

xyz_from_luv_call(luv, run) ==
    /\ op = "idle"
    /\ op' = "xyz_from_luv"
    /\ arg' = luv
    /\ ret' = run.ret
    /\ fx' = [panic |-> FALSE, divisors |-> run.divisors]

NextXyz ==
    \/ \E x \in XyzVals, y \in XyzVals, z \in XyzVals :
           luv_from_xyz_call(<<x, y, z>>, luv_from_xyz_run(<<x, y, z>>))
    \/ \E l \in XyzLuvL, u \in XyzLuvUV, v \in XyzLuvUV :
           xyz_from_luv_call(MkLuv(l, u, v), xyz_from_luv_run(MkLuv(l, u, v)))
SpecXyz == Init /\ [][NextXyz]_vars

\* ---- batch helpers

ByteVals == {0, 127, 255}
RgbVals == {<<0, 0, 0>>, <<255, 0, 0>>, <<253, 120, 138>>, <<64, 64, 64>>}
BatchLuvs == {LuvDefault, Luv_from_rgb(<<255, 0, 0>>), Luv_from_rgb(<<0, 127, 255>>),
              MkLuv(Lit(50, 1), 0, 0), MkLuv(NaN, 0, 0)}

rgbs_to_luvs_call(rgbs, res) ==
    /\ op = "idle"
    /\ op' = "rgbs_to_luvs"
    /\ arg' = rgbs
    /\ ret' = res
    /\ fx' = NoFx

luvs_to_rgbs_call(luvs, res) ==
    /\ op = "idle"
    /\ op' = "luvs_to_rgbs"
    /\ arg' = luvs
    /\ ret' = res
    /\ fx' = NoFx

rgb_bytes_to_luvs_call(bytes, run) ==
    /\ op = "idle"
    /\ op' = "rgb_bytes_to_luvs"
    /\ arg' = bytes
    /\ ret' = run.ret
    /\ fx' = [panic |-> run.panic, divisors |-> <<>>]

luvs_to_rgb_bytes_call(luvs, res) ==
    /\ op = "idle"
    /\ op' = "luvs_to_rgb_bytes"
    /\ arg' = luvs
    /\ ret' = res
    /\ fx' = NoFx

\* luvs_to_rgbs(&rgbs_to_luvs(&rgbs)), as test_rgb_to_luv_to_rgb
round_trip_call(rgbs, res) ==
    /\ op = "idle"
    /\ op' = "round_trip"
    /\ arg' = rgbs
    /\ ret' = res
    /\ fx' = NoFx

NextBatch ==
    \/ \E rgbs \in SeqsUpTo(RgbVals, MaxLen) :
           rgbs_to_luvs_call(rgbs, rgbs_to_luvs(rgbs))
    \/ \E luvs \in SeqsUpTo(BatchLuvs, MaxLen) :
           luvs_to_rgbs_call(luvs, luvs_to_rgbs(luvs))
    \/ \E bytes \in SeqsUpTo(ByteVals, MaxBytes) :
           rgb_bytes_to_luvs_call(bytes, rgb_bytes_to_luvs_run(bytes))
    \/ \E luvs \in SeqsUpTo(BatchLuvs, MaxLen) :
           luvs_to_rgb_bytes_call(luvs, luvs_to_rgb_bytes(luvs))
    \/ \E rgbs \in SeqsUpTo(RgbVals, MaxLen) :
           round_trip_call(rgbs, luvs_to_rgbs(rgbs_to_luvs(rgbs)))
SpecBatch == Init /\ [][NextBatch]_vars

\* ---- distance

DistL == {0, Lit(3, 1), NaN, PInf}
DistU == {FNeg(Lit(2, 1)), Lit(1, 1), MaxFinite}
DistV == {0, Lit(5, 1), NInf}
DistLuvs == {MkLuv(l, u, v) : l \in DistL, u \in DistU, v \in DistV}

squared_distance_call(a, b, res) ==
    /\ op = "idle"
    /\ op' = "squared_distance"
    /\ arg' = <<a, b>>
    /\ ret' = res
    /\ fx' = NoFx

\* a == b and a.squared_distance(&b) of the same two values
EqDistLuvs == {MkLuv(l, u, v) : l \in {0, Lit(3, 1), Lit(50, 1)},
                                u \in {FNeg(Lit(2, 1)), 0, Lit(1, 1)},
                                v \in {0, Lit(5, 1)}}

eq_and_distance_call(a, b, eq, distance) ==
    /\ op = "idle"
    /\ op' = "eq_and_distance"
    /\ arg' = <<a, b>>
    /\ ret' = [eq |-> eq, distance |-> distance]
    /\ fx' = NoFx

NextDist ==
    \/ \E a \in DistLuvs, b \in DistLuvs :
           squared_distance_call(a, b, squared_distance(a, b))
    \/ \E a \in EqDistLuvs, b \in EqDistLuvs :
           eq_and_distance_call(a, b, Luv_eq(a, b), squared_distance(a, b))
SpecDist == Init /\ [][NextDist]_vars

\* ---- approximate equality

ApproxL == {0, 1, Lit(50, 1)}
ApproxUV == {0, 2, Lit(50, 1)}
ApproxC == {0, 2, 3, Lit(50, 1)}
ApproxH == {0, Lit(1, 1), FAdd(Lit(1, 1), TAU)}
ApproxLuvs == {MkLuv(l, u, v) : l \in ApproxL, u \in ApproxUV, v \in ApproxUV}
ApproxLChs == {MkLCh(l, c, h) : l \in ApproxL, c \in ApproxC, h \in ApproxH}
Epsilons == {0, 2}
MaxRelatives == {Lit(1, 100)}
MaxUlps == {4}

Luv_abs_diff_eq_call(a, b, epsilon, res) ==
    /\ op = "idle"
    /\ op' = "Luv_abs_diff_eq"
    /\ arg' = <<a, b, epsilon>>
    /\ ret' = res
    /\ fx' = NoFx

Luv_relative_eq_call(a, b, epsilon, max_relative, res) ==
    /\ op = "idle"
    /\ op' = "Luv_relative_eq"
    /\ arg' = <<a, b, epsilon, max_relative>>
    /\ ret' = res
    /\ fx' = NoFx

Luv_ulps_eq_call(a, b, epsilon, max_ulps, res) ==
    /\ op = "idle"
    /\ op' = "Luv_ulps_eq"
    /\ arg' = <<a, b, epsilon, max_ulps>>
    /\ ret' = res
    /\ fx' = NoFx

LCh_abs_diff_eq_call(a, b, epsilon, res) ==
    /\ op = "idle"
    /\ op' = "LCh_abs_diff_eq"
    /\ arg' = <<a, b, epsilon>>
    /\ ret' = res
    /\ fx' = NoFx

LCh_relative_eq_call(a, b, epsilon, max_relative, res) ==
    /\ op = "idle"
    /\ op' = "LCh_relative_eq"
    /\ arg' = <<a, b, epsilon, max_relative>>
    /\ ret' = res
    /\ fx' = NoFx

LCh_ulps_eq_call(a, b, epsilon, max_ulps, res) ==
    /\ op = "idle"
    /\ op' = "LCh_ulps_eq"
    /\ arg' = <<a, b, epsilon, max_ulps>>
    /\ ret' = res
    /\ fx' = NoFx

ApproxTypes == {"Luv", "LCh"}

default_epsilon_call(t, res) ==
    /\ op = "idle"
    /\ op' = "default_epsilon"
    /\ arg' = t
    /\ ret' = res
    /\ fx' = NoFx

default_max_relative_call(t, res) ==
    /\ op = "idle"
    /\ op' = "default_max_relative"
    /\ arg' = t
    /\ ret' = res
    /\ fx' = NoFx

NextApprox ==
    \/ \E a \in ApproxLuvs, b \in ApproxLuvs, e \in Epsilons :
           Luv_abs_diff_eq_call(a, b, e, Luv_abs_diff_eq(a, b, e))
    \/ \E a \in ApproxLuvs, b \in ApproxLuvs, e \in Epsilons, m \in MaxRelatives :
           Luv_relative_eq_call(a, b, e, m, Luv_relative_eq(a, b, e, m))
    \/ \E a \in ApproxLuvs, b \in ApproxLuvs, e \in Epsilons, m \in MaxUlps :
           Luv_ulps_eq_call(a, b, e, m, Luv_ulps_eq(a, b, e, m))
    \/ \E a \in ApproxLChs, b \in ApproxLChs, e \in Epsilons :
           LCh_abs_diff_eq_call(a, b, e, LCh_abs_diff_eq(a, b, e))
    \/ \E a \in ApproxLChs, b \in ApproxLChs, e \in Epsilons, m \in MaxRelatives :
           LCh_relative_eq_call(a, b, e, m, LCh_relative_eq(a, b, e, m))
    \/ \E a \in ApproxLChs, b \in ApproxLChs, e \in Epsilons, m \in MaxUlps :
           LCh_ulps_eq_call(a, b, e, m, LCh_ulps_eq(a, b, e, m))
    \/ \E t \in ApproxTypes : default_epsilon_call(t, default_epsilon(t))
    \/ \E t \in ApproxTypes : default_max_relative_call(t, default_max_relative(t))
SpecApprox == Init /\ [][NextApprox]_vars

\* ---- the luminance laws in exact arithmetic

MaxP == 8
MaxQ == 30

\* the inputs y > 0: the cubes of the rationals p / q
ExactYs == {QCube(Q(p, q)) : p \in 1..MaxP, q \in 1..MaxQ}

\* y to l by luv_from_xyz, and l back to y by xyz_from_luv
luminance_exact_call(y, fwd, inv) ==
    /\ op = "idle"
    /\ op' = "luminance_exact"
    /\ arg' = y
    /\ ret' = [l |-> fwd.l, forward |-> fwd.branch,
               y |-> inv.y, inverse |-> inv.branch]
    /\ fx' = NoFx

NextLum ==
    \E y \in ExactYs :
        luminance_exact_call(y, luv_from_xyz_l_exact(y),
                             xyz_from_luv_y_exact(luv_from_xyz_l_exact(y).l))
SpecLum == Init /\ [][NextLum]_vars

\* ---- equality and the conversions

ConvLuvs == {MkLuv(l, u, v) : l \in {FNeg(Lit(1, 1)), 0, Lit(50, 1), PInf},
                              u \in {0, Lit(50, 1), NaN},
                              v \in {FNeg(Lit(100, 1)), 0}}

MaxQuarterTurns == 5
ConvLChs == {MkLCh(l, c, h) : l \in {0, 50}, c \in {0, 50},
                              h \in (-MaxQuarterTurns)..MaxQuarterTurns}

\* a == b, xyz_from_luv(&a), xyz_from_luv(&b), a.to_rgb() and b.to_rgb()
eq_and_xyz_call(a, b, eq, xa, xb) ==
    /\ op = "idle"
    /\ op' = "eq_and_xyz"
    /\ arg' = <<a, b>>
    /\ ret' = [eq |-> eq, xyz |-> <<xa, xb>>,
               rgb |-> <<u8_from_xyz(xa), u8_from_xyz(xb)>>]
    /\ fx' = NoFx

\* p == q, p.to_luv() and q.to_luv(), in exact arithmetic
eq_and_to_luv_call(p, q, eq, lp, lq) ==
    /\ op = "idle"
    /\ op' = "eq_and_to_luv"
    /\ arg' = <<p, q>>
    /\ ret' = [eq |-> eq, luv |-> <<lp, lq>>]
    /\ fx' = NoFx

NextConv ==
    \/ \E a \in ConvLuvs, b \in ConvLuvs :
           eq_and_xyz_call(a, b, Luv_eq(a, b), xyz_from_luv(a), xyz_from_luv(b))
    \/ \E p \in ConvLChs, q \in ConvLChs :
           eq_and_to_luv_call(p, q, LCh_eq_exact(p, q),
                              to_luv_exact(p), to_luv_exact(q))
SpecConv == Init /\ [][NextConv]_vars

Next == NextEq \/ NextXyz \/ NextBatch \/ NextDist \/ NextApprox \/ NextLum
            \/ NextConv
Spec == Init /\ [][Next]_vars

\* -------------------------------------------------------- properties

\* x and y differ as f32 values: != is true of them (a NaN differs from
\* everything, itself included)
Differs(x, y) == IsNaN(x) \/ IsNaN(y) \/ x # y

\* C1: structural equality on Luv follows the decision table: luminances
\* that differ give false; otherwise a zero luminance gives true whatever
\* u and v are; otherwise the result is true exactly when the u's are equal
\* and the v's are equal.
C1_LuvEqTable ==
    op = "Luv_eq" =>
        LET a == arg[1]
            b == arg[2]
        IN  /\ Differs(a.l, b.l) => ret = FALSE
            /\ ~Differs(a.l, b.l) /\ a.l = 0 => ret = TRUE
            /\ ~Differs(a.l, b.l) /\ a.l # 0 =>
                   ret = (~Differs(a.u, b.u) /\ ~Differs(a.v, b.v))

\* two blacks with different chromaticities compared equal
C1_Witness ==
    /\ op = "Luv_eq"
    /\ arg[1].l = 0 /\ arg[2].l = 0
    /\ arg[1].u = 0 /\ arg[2].u = Lit(100, 1) /\ arg[1].v # arg[2].v
    /\ ~IsNaN(arg[1].v) /\ ~IsNaN(arg[2].v)
    /\ ret = TRUE

\* C2: structural equality on LCh follows the decision table: different l
\* gives false; equal zero l gives true; otherwise different c gives false;
\* equal zero c gives true; otherwise the result is true exactly when the
\* hues have the same Euclidean remainder modulo TAU, which is not negative.
C2_LChEqTable ==
    op = "LCh_eq" =>
        LET a == arg[1]
            b == arg[2]
            ra == rem_euclid(a.h, TAU)
            rb == rem_euclid(b.h, TAU)
        IN  /\ Differs(a.l, b.l) => ret = FALSE
            /\ ~Differs(a.l, b.l) /\ a.l = 0 => ret = TRUE
            /\ ~Differs(a.l, b.l) /\ a.l # 0 /\ Differs(a.c, b.c) => ret = FALSE
            /\ ~Differs(a.l, b.l) /\ a.l # 0 /\ ~Differs(a.c, b.c) /\ a.c = 0 =>
                   ret = TRUE
            /\ ~Differs(a.l, b.l) /\ a.l # 0 /\ ~Differs(a.c, b.c) /\ a.c # 0 =>
                   /\ ret = ~Differs(ra, rb)
                   /\ ret => ra >= 0 /\ ra <= TAU

\* two colours whose hues differ by a turn compared equal
C2_Witness ==
    /\ op = "LCh_eq"
    /\ arg[1].l = Lit(50, 1) /\ arg[2].l = Lit(50, 1)
    /\ arg[1].c = Lit(50, 1) /\ arg[2].c = Lit(50, 1)
    /\ arg[1].h = Lit(1, 1) /\ arg[2].h = FSub(Lit(1, 1), TAU)
    /\ ret = TRUE

\* C3: hue periodicity: every LCh value x compares equal to the value with
\* the same l and c and the hue x.h + k * TAU, for every integer k.
C3_HuePeriodicity == op = "hue_turns" => ret = TRUE

\* C4: rgb_bytes_to_luvs called with a byte sequence whose length is not a
\* multiple of 3 ends in a fatal outcome; it never returns normally with the
\* trailing 1 or 2 bytes dropped.
C4_NonMultipleIsFatal ==
    (op = "rgb_bytes_to_luvs" /\ Len(arg) % 3 # 0) => fx.panic

\* C5: rgbs_to_luvs(xs) has the length of xs and its i-th element is
\* Luv::from_rgb(xs[i]); luvs_to_rgbs(ys) has the length of ys and its i-th
\* element is ys[i].to_rgb(); so luvs_to_rgbs(rgbs_to_luvs(xs)) has the
\* length of xs and keeps the input order.
C5_ElementWise ==
    /\ op = "rgbs_to_luvs" =>
           /\ Len(ret) = Len(arg)
           /\ \A i \in 1..Len(arg) : ret[i] = Luv_from_rgb(arg[i])
    /\ op = "luvs_to_rgbs" =>
           /\ Len(ret) = Len(arg)
           /\ \A i \in 1..Len(arg) : ret[i] = Luv_to_rgb(arg[i])
    /\ op = "round_trip" =>
           /\ Len(ret) = Len(arg)
           /\ \A i \in 1..Len(arg) : ret[i] = Luv_to_rgb(Luv_from_rgb(arg[i]))

\* two different colours converted in their input order
C5_Witness ==
    /\ op = "rgbs_to_luvs"
    /\ Len(arg) = 2 /\ Len(ret) = 2
    /\ arg[1] = <<255, 0, 0>> /\ arg[2] = <<0, 0, 0>>
    /\ ret[1].l > 0 /\ ret[2] = LuvDefault

\* C6: for a byte sequence of length 3n, rgb_bytes_to_luvs returns n values,
\* the i-th being Luv::from_rgb of the i-th triple of bytes, as rgbs_to_luvs
\* on those triples; for n Luv values, luvs_to_rgb_bytes returns exactly 3n
\* bytes, the in-order concatenation of the triples of luvs_to_rgbs.
C6_FlatAgreesWithTriples ==
    /\ (op = "rgb_bytes_to_luvs" /\ Len(arg) % 3 = 0) =>
           LET n == Len(arg) \div 3
               triples == [i \in 1..n |->
                              <<arg[3 * i - 2], arg[3 * i - 1], arg[3 * i]>>]
           IN  /\ ~fx.panic
               /\ Len(ret) = n
               /\ \A i \in 1..n : ret[i] = Luv_from_rgb(triples[i])
               /\ ret = rgbs_to_luvs(triples)
    /\ op = "luvs_to_rgb_bytes" =>
           LET rgbs == luvs_to_rgbs(arg)
           IN  /\ Len(ret) = 3 * Len(arg)
               /\ \A i \in 1..Len(arg) : \A j \in 1..3 :
                      ret[3 * (i - 1) + j] = rgbs[i][j]

\* six bytes converted to the two colours of their two triples
C6_Witness ==
    /\ op = "rgb_bytes_to_luvs"
    /\ arg = <<255, 0, 0, 0, 127, 255>>
    /\ Len(ret) = 2
    /\ ret[1] # ret[2]
    /\ ~fx.panic

\* the leaf test of the approximate equality called in the state
LeafEq(x, y) ==
    CASE op \in {"Luv_abs_diff_eq", "LCh_abs_diff_eq"} ->
             f32_abs_diff_eq(x, y, arg[3])
      [] op \in {"Luv_relative_eq", "LCh_relative_eq"} ->
             f32_relative_eq(x, y, arg[3], arg[4])
      [] op \in {"Luv_ulps_eq", "LCh_ulps_eq"} ->
             f32_ulps_eq(x, y, arg[3], arg[4])

\* the decision table on Luv with that leaf test
TableLuv(a, b) ==
    IF ~LeafEq(a.l, b.l) THEN FALSE
    ELSE IF LeafEq(a.l, 0) \/ LeafEq(b.l, 0) THEN TRUE
    ELSE LeafEq(a.u, b.u) /\ LeafEq(a.v, b.v)

\* the decision table on LCh with that leaf test, the zero test of the
\* chroma made on either operand
TableLCh(a, b) ==
    IF ~LeafEq(a.l, b.l) THEN FALSE
    ELSE IF LeafEq(a.l, 0) \/ LeafEq(b.l, 0) THEN TRUE
    ELSE IF ~LeafEq(a.c, b.c) THEN FALSE
    ELSE IF LeafEq(a.c, 0) \/ LeafEq(b.c, 0) THEN TRUE
    ELSE LeafEq(rem_euclid(a.h, TAU), rem_euclid(b.h, TAU))

\* C7: each approximate equality on Luv and on LCh is the decision table of
\* structural equality with the approximate test eq at every leaf:
\* luminances not eq give false; a luminance eq to zero gives true; for
\* LCh, chromas not eq give false and a chroma eq to zero, of either
\* operand, gives true whatever the hues; otherwise u and v, or the hues
\* reduced modulo TAU, are compared with eq.
C7_ApproxTable ==
    /\ op \in {"Luv_abs_diff_eq", "Luv_relative_eq", "Luv_ulps_eq"} =>
           ret = TableLuv(arg[1], arg[2])
    /\ op \in {"LCh_abs_diff_eq", "LCh_relative_eq", "LCh_ulps_eq"} =>
           ret = TableLCh(arg[1], arg[2])

\* a value of the model is an f32: a NaN, an infinity or a finite value
\* of the precision
IsF32(x) == IsNaN(x) \/ IsInf(x) \/ IsRepresentable(x)

\* C8: luv_from_xyz is total, and for every input with y <= 0 it returns
\* the black Luv value (0, 0, 0) whatever x and z are, without evaluating
\* the division by d = x + 15y + 3z.
C8_LuvFromXyzBlack ==
    op = "luv_from_xyz" =>
        /\ ~fx.panic
        /\ DOMAIN ret = {"l", "u", "v"}
        /\ IsF32(ret.l) /\ IsF32(ret.u) /\ IsF32(ret.v)
        /\ FLe(arg[2], 0) => (ret = MkLuv(0, 0, 0) /\ fx.divisors = <<>>)

\* the input whose d is zero gave black with no division
C8_Witness ==
    /\ op = "luv_from_xyz"
    /\ arg = <<0, 0, 0>>
    /\ ret = MkLuv(0, 0, 0)
    /\ fx.divisors = <<>>

\* C9, as stated: xyz_from_luv returns (0, 0, 0) for every Luv value with
\* l <= 0, whatever u and v are, so the division by 13*l is only ever
\* evaluated with l > 0.
C9_DivisionOnlyPositive ==
    op = "xyz_from_luv" =>
        /\ FLe(arg.l, 0) => (ret = <<0, 0, 0>> /\ fx.divisors = <<>>)
        /\ fx.divisors # <<>> => FGt(arg.l, 0)

\* C9, amended: xyz_from_luv returns (0, 0, 0) for every Luv value with
\* l <= 0, whatever u and v are, with no division evaluated; the division
\* by 13*l is evaluated exactly when l <= 0 is false, that is with l > 0 or
\* with l a NaN, and never with a zero divisor.
C9_DivisionNeverByZero ==
    op = "xyz_from_luv" =>
        /\ FLe(arg.l, 0) => (ret = <<0, 0, 0>> /\ fx.divisors = <<>>)
        /\ ~FLe(arg.l, 0) =>
               /\ Len(fx.divisors) >= 2
               /\ fx.divisors[1] # 0 /\ fx.divisors[2] # 0
               /\ IsNaN(arg.l) \/ arg.l > 0
               /\ IsNaN(arg.l) <=> IsNaN(fx.divisors[1])
               /\ arg.l > 0 => (fx.divisors[1] > 0 /\ fx.divisors[1] = fx.divisors[2])
        /\ fx.divisors # <<>> => ~FLe(arg.l, 0)

\* a zero luminance with chromaticities gave (0, 0, 0) with no division
C9_Witness ==
    /\ op = "xyz_from_luv"
    /\ arg.l = 0 /\ arg.u = Lit(50, 1) /\ arg.v = FNeg(Lit(100, 1))
    /\ ret = <<0, 0, 0>>
    /\ fx.divisors = <<>>

\* all three components are finite
FiniteLuv(x) == IsFinite(x.l) /\ IsFinite(x.u) /\ IsFinite(x.v)

\* all three components are whole numbers of at most 8
SmallWhole(x) ==
    \A f \in {x.l, x.u, x.v} : IsFinite(f) /\ f % Unit = 0 /\ Abs(f) <= 8 * Unit

\* C10, as stated: squared_distance is the unweighted sum of the squared
\* differences of l, u and v; for all Luv values squared_distance(x, x) == 0
\* and squared_distance(a, b) == squared_distance(b, a).
C10_DistanceAllValues ==
    op = "squared_distance" =>
        /\ arg[1] = arg[2] => FEq(ret, 0)
        /\ FEq(ret, squared_distance(arg[2], arg[1]))

\* C10, amended: squared_distance is the unweighted sum of the squared
\* differences of l, u and v; for all Luv values x, a, b whose components
\* are finite, squared_distance(x, x) == 0 and squared_distance(a, b) ==
\* squared_distance(b, a).
C10_DistanceFiniteValues ==
    op = "squared_distance" =>
        LET a == arg[1]
            b == arg[2]
            dl == (a.l - b.l) \div Unit
            du == (a.u - b.u) \div Unit
            dv == (a.v - b.v) \div Unit
        IN  /\ (SmallWhole(a) /\ SmallWhole(b)) =>
                   ret = (dl * dl + du * du + dv * dv) * Unit
            /\ (FiniteLuv(a) /\ a = b) => FEq(ret, 0)
            /\ (FiniteLuv(a) /\ FiniteLuv(b)) =>
                   FEq(ret, squared_distance(b, a))

\* the distance of (0, -2, 0) and (3, 1, 5) is 9 + 9 + 25
C10_Witness ==
    /\ op = "squared_distance"
    /\ arg[1] = MkLuv(0, FNeg(Lit(2, 1)), 0)
    /\ arg[2] = MkLuv(Lit(3, 1), Lit(1, 1), Lit(5, 1))
    /\ ret = Lit(43, 1)

\* C11, as stated: the default absolute epsilon and the default relative
\* tolerance of the approximate equality of Luv and of LCh
\* (default_epsilon, default_max_relative) are both 1e-4.
C11_DefaultsAre1e4 ==
    op \in {"default_epsilon", "default_max_relative"} => ret = Lit(1, 10000)

\* C11, amended: the default absolute epsilon and the default relative
\* tolerance of the approximate equality of Luv and of LCh are both
\* f32::EPSILON, the difference between 1.0 and the next f32, which is what
\* the f32 implementations they delegate to return.
C11_DefaultsAreF32Epsilon ==
    op \in {"default_epsilon", "default_max_relative"} =>
        /\ arg \in {"Luv", "LCh"}
        /\ IsFinite(ret) /\ ret > 0
        /\ FAdd(Lit(1, 1), ret) = NextUp(Lit(1, 1))
        /\ FSub(NextUp(Lit(1, 1)), Lit(1, 1)) = ret

\* the default relative tolerance of LCh was asked for
C11_Witness ==
    /\ op = "default_max_relative"
    /\ arg = "LCh"
    /\ FAdd(Lit(1, 1), ret) = NextUp(Lit(1, 1))

\* C12: in exact arithmetic the forward and inverse luminance laws select
\* matching branches for every y > 0: if y <= epsilon = 216/24389 then
\* luv_from_xyz yields l = kappa * y <= 8 and xyz_from_luv takes the linear
\* branch y = l / kappa; if y > epsilon then luv_from_xyz yields
\* l = 116 * cbrt(y) - 16 > 8 and xyz_from_luv takes the cube branch
\* y = ((l + 16) / 116)^3.  At y = epsilon both forward branches give l = 8,
\* and y is recovered exactly.
C12_MatchingBranches ==
    op = "luminance_exact" =>
        LET y == arg
            eps == <<216, 24389>>
            eight == <<8, 1>>
        IN  /\ y[1] * eps[2] <= eps[1] * y[2] =>
                   /\ ret.forward = "linear" /\ ret.inverse = "linear"
                   /\ ret.l = QMul(<<24389, 27>>, y)
                   /\ ret.l[1] <= 8 * ret.l[2]
            /\ y[1] * eps[2] > eps[1] * y[2] =>
                   /\ ret.forward = "cube" /\ ret.inverse = "cube"
                   /\ ret.l = QAdd(QMul(Q(116, 1), QCbrt(y)), Q(-16, 1))
                   /\ ret.l[1] > 8 * ret.l[2]
            /\ y = eps =>
                   /\ ret.l = eight
                   /\ QMul(KAPPA_exact, EPSILON_exact) = KAPPA_EPSILON_exact
                   /\ QAdd(QMul(Q(116, 1), QCbrt(y)), Q(-16, 1)) = eight
            /\ ret.y = y

\* y = epsilon went to l = 8 and came back
C12_Witness ==
    /\ op = "luminance_exact"
    /\ arg = <<216, 24389>>
    /\ ret.l = <<8, 1>>
    /\ ret.forward = "linear" /\ ret.inverse = "linear"
    /\ ret.y = arg

\* the approximate equality called in the state, applied to a and b with
\* the tolerances of the call
ApproxOfCall(a, b) ==
    CASE op = "Luv_abs_diff_eq" -> Luv_abs_diff_eq(a, b, arg[3])
      [] op = "Luv_relative_eq" -> Luv_relative_eq(a, b, arg[3], arg[4])
      [] op = "Luv_ulps_eq" -> Luv_ulps_eq(a, b, arg[3], arg[4])
      [] op = "LCh_abs_diff_eq" -> LCh_abs_diff_eq(a, b, arg[3])
      [] op = "LCh_relative_eq" -> LCh_relative_eq(a, b, arg[3], arg[4])
      [] op = "LCh_ulps_eq" -> LCh_ulps_eq(a, b, arg[3], arg[4])

\* C13: approximate equality is symmetric: for every pair a, b of Luv
\* values and of LCh values and every tolerance, abs_diff_eq(a, b) ==
\* abs_diff_eq(b, a), and likewise relative_eq and ulps_eq.
C13_ApproxSymmetric ==
    op \in {"Luv_abs_diff_eq", "Luv_relative_eq", "Luv_ulps_eq",
            "LCh_abs_diff_eq", "LCh_relative_eq", "LCh_ulps_eq"} =>
        /\ LeafEq(arg[1].l, arg[2].l) = LeafEq(arg[2].l, arg[1].l)
        /\ ret = ApproxOfCall(arg[2], arg[1])

\* C14: equality and distance agree: for all Luv values a, b, if a == b
\* (structural equality) then a.squared_distance(&b) == 0.
C14_EqualMeansZeroDistance ==
    (op = "eq_and_distance" /\ ret.eq) => FEq(ret.distance, 0)

=============================================================================
